---- MODULE Spec2Model ----
(***************************************************************************)
(* Model of tracker.py: a Streamlit script that keeps a trade ledger in a  *)
(* Google sheet (conn.read / conn.update) and, on every script run,        *)
(* recomputes positions, realized profit and live valuation from the       *)
(* whole ledger.                                                           *)
(*                                                                         *)
(* Numbers.  Python/numpy floats are modelled as exact rationals n/d       *)
(* (d > 0, lowest terms) extended with the IEEE special values the code    *)
(* can produce: NaN (0/0), +inf and -inf (x/0).  Rounding is not modelled. *)
(* Dates are day numbers.  The Platform column and the Company lookup      *)
(* (get_company_name) carry no computation and are left out of the rows.   *)
(***************************************************************************)
EXTENDS Integers, Sequences, FiniteSets, TLC

VARIABLES
    sheet,         \* the stored ledger: the rows of the Google sheet
    pc,            \* per session: "idle", or "concat" between load_data and conn.update
    df,            \* per session: the frame load_data returned to the submit handler
    new_entry,     \* per session: the row the submit handler is about to append
    run,           \* the names the latest pass through tab1 has bound, with their values
    read_ok,       \* whether conn.read succeeded in that pass
    quote_result   \* the quote outcome of every ticker that pass asked yfinance about

vars == <<sheet, pc, df, new_entry, run, read_ok, quote_result>>

-----------------------------------------------------------------------------
(* Bounds and input sets *)

MaxLen == 2         \* longest ledger the evaluation specification starts from
MaxLedger == 2      \* longest ledger the submit path fills in the session specification
NumSessions == 2    \* browser sessions running the script
MaxLoaded == 2      \* longest ledger of the loaded-sheet specification

Sessions == 1..NumSessions
Tickers == {"AAA", "BBB"}
Dates == {1, 2}
Types == {"Buy", "Sell"}

\* what the form of the sidebar can produce: a searched symbol, Buy or Sell,
\* quantity and price no smaller than min_value = 0.0
FormRows ==
    [Date : Dates, Ticker : Tickers, Type : Types, Qty : {0, 5, 10}, Price : {100, 150}]

SessionRows ==
    [Date : {1}, Ticker : {"AAA"}, Type : Types, Qty : {5}, Price : {100}]

\* what a hand-edited sheet can also hold
LoadedRows ==
    [Date : {1}, Ticker : {"AAA"}, Type : {"Buy", "Sell", "Hold"}, Qty : {-5, 5},
     Price : {-100, 100}]

Row(d, t, ty, q, p) == [Date |-> d, Ticker |-> t, Type |-> ty, Qty |-> q, Price |-> p]

\* the worked example: two buys at 100 and 120, one sell at 150
ScenarioLedger ==
    << Row(1, "AAA", "Buy", 10, 100), Row(2, "AAA", "Buy", 10, 120),
       Row(3, "AAA", "Sell", 5, 150) >>

LaterBuys == { Row(4, "AAA", "Buy", q, p) : q \in {0, 10}, p \in {100, 110, 150} }

\* two symbols whose sells of one day are entered in the other order than their
\* first records, and one symbol sold out next to one still held
TwoSymbolLedgers ==
    { << Row(1, "AAA", "Buy", 5, 100), Row(1, "BBB", "Buy", 5, 100),
         Row(2, "BBB", "Sell", 5, 150), Row(2, "AAA", "Sell", 5, 150) >>,
      << Row(1, "AAA", "Buy", 5, 100), Row(2, "AAA", "Sell", 5, 150),
         Row(2, "BBB", "Buy", 10, 150) >> }

WorkedLedgers ==
    {ScenarioLedger} \cup { Append(ScenarioLedger, b) : b \in LaterBuys }
        \cup TwoSymbolLedgers

QuoteOutcomes ==
    {[ok |-> FALSE, price |-> 0]} \cup {[ok |-> TRUE, price |-> p] : p \in {130}}

Ledgers(rows, n) == UNION { [1..k -> rows] : k \in 0..n }

-----------------------------------------------------------------------------
(* Float arithmetic *)

Abs(i) == IF i < 0 THEN -i ELSE i
Sign(i) == IF i < 0 THEN -1 ELSE IF i > 0 THEN 1 ELSE 0

RECURSIVE GCD(_, _)
GCD(a, b) == IF b = 0 THEN a ELSE GCD(b, a % b)

NaN == [n |-> 0, d |-> 0]
Inf(s) == [n |-> s, d |-> 0]
Zero == [n |-> 0, d |-> 1]
IsNaN(a) == a.d = 0 /\ a.n = 0
IsInf(a) == a.d = 0 /\ a.n # 0
IsFinite(a) == a.d > 0

Norm(n, d) == LET g == GCD(Abs(n), d) IN [n |-> n \div g, d |-> d \div g]

Add(a, b) ==
    IF IsNaN(a) \/ IsNaN(b) THEN NaN
    ELSE IF IsInf(a) THEN (IF IsInf(b) /\ b.n # a.n THEN NaN ELSE a)
    ELSE IF IsInf(b) THEN b
    ELSE Norm(a.n * b.d + b.n * a.d, a.d * b.d)

Neg(a) == [n |-> -a.n, d |-> a.d]
Sub(a, b) == Add(a, Neg(b))

Mul(a, b) ==
    IF IsNaN(a) \/ IsNaN(b) THEN NaN
    ELSE IF IsInf(a) \/ IsInf(b)
         THEN (IF a.n = 0 \/ b.n = 0 THEN NaN ELSE Inf(Sign(a.n) * Sign(b.n)))
    ELSE Norm(a.n * b.n, a.d * b.d)

\* numpy scalars: x/0 is inf, 0/0 is nan, and nothing is raised
Div(a, b) ==
    IF IsNaN(a) \/ IsNaN(b) THEN NaN
    ELSE IF IsInf(b) THEN (IF IsInf(a) THEN NaN ELSE Zero)
    ELSE IF b.n = 0 THEN (IF a.n = 0 THEN NaN ELSE Inf(Sign(a.n)))
    ELSE IF IsInf(a) THEN Inf(Sign(a.n) * Sign(b.n))
    ELSE Norm(a.n * b.d * Sign(b.n), a.d * Abs(b.n))

\* a > b on floats: every comparison with NaN is False
Gt(a, b) ==
    /\ ~IsNaN(a) /\ ~IsNaN(b)
    /\ IF IsInf(a) THEN a.n > 0 /\ a # b
       ELSE IF IsInf(b) THEN b.n < 0
       ELSE a.n * b.d > b.n * a.d

\* pd.to_numeric on a cell holding a number
to_numeric(x) == [n |-> x, d |-> 1]

RECURSIVE Sum(_)
Sum(s) == IF s = <<>> THEN Zero ELSE Add(Sum(SubSeq(s, 1, Len(s) - 1)), s[Len(s)])

-----------------------------------------------------------------------------
(* The ledger store *)

\* load_data: the sheet, or an empty frame with the six column names when
\* conn.read raises
load_data(ok) == IF ok THEN sheet ELSE <<>>

\* pd.concat([df, new_entry], ignore_index=True)
concat(frame, entry) == Append(frame, entry)

-----------------------------------------------------------------------------
(* The pass through tab1 *)

\* a pass that would never take the frame for empty
is_empty_never(frame) == FALSE

\* all_data.empty
is_empty(frame) == frame = <<>>

\* lines 95-97: Qty and Price become floats; the RangeIndex of the frame is kept
coerce(frame) ==
    [i \in 1..Len(frame) |->
        [idx |-> i, Date |-> frame[i].Date, Ticker |-> frame[i].Ticker,
         Type |-> frame[i].Type, Qty |-> to_numeric(frame[i].Qty),
         Price |-> to_numeric(frame[i].Price)]]

Contains(s, x) == \E i \in 1..Len(s) : s[i] = x

\* all_data['Ticker'].unique(): the tickers in order of first appearance
RECURSIVE unique(_)
unique(frame) ==
    IF frame = <<>> THEN <<>>
    ELSE LET front == unique(SubSeq(frame, 1, Len(frame) - 1))
             t == frame[Len(frame)].Ticker
         IN IF Contains(front, t) THEN front ELSE Append(front, t)

of_ticker(frame, t) == SelectSeq(frame, LAMBDA r : r.Ticker = t)
of_type(frame, ty) == SelectSeq(frame, LAMBDA r : r.Type = ty)

QtyCol(frame) == [i \in 1..Len(frame) |-> frame[i].Qty]
CostCol(frame) == [i \in 1..Len(frame) |-> Mul(frame[i].Qty, frame[i].Price)]

\* buys['Qty'].sum() - sells['Qty'].sum()
net_qty(buys, sells) == Sub(Sum(QtyCol(buys)), Sum(QtyCol(sells)))

\* a cost basis that would be the price of the last Buy
avg_price_last(buys) == IF buys = <<>> THEN NaN ELSE buys[Len(buys)].Price

\* (buys['Qty'] * buys['Price']).sum() / buys['Qty'].sum()
avg_price(buys) == Div(Sum(CostCol(buys)), Sum(QtyCol(buys)))

\* (sell_row['Price'] - avg_buy_price) * sell_row['Qty']
profit(sell_row, avg_buy_price) ==
    Mul(Sub(sell_row.Price, avg_buy_price), sell_row.Qty)

\* a test that would read net_qty >= 0
is_open_or_flat(net) == ~Gt(Zero, net)

\* net_qty > 0
is_open(net) == Gt(net, Zero)

\* a fallback that would value the position at 0.0
live_price_or_zero(q, avg_cost) == IF q.ok THEN to_numeric(q.price) ELSE Zero

\* try: yf.Ticker(ticker).fast_info['last_price']  except: avg_cost
live_price(q, avg_cost) == IF q.ok THEN to_numeric(q.price) ELSE avg_cost

\* the rows a ticker adds to realized_trades, one per sell in ledger order;
\* row is the label iterrows yields, which the code drops
realized_of(t, buys, sells) ==
    IF sells # <<>>
    THEN LET avg_buy_price == avg_price(buys)
         IN [i \in 1..Len(sells) |->
                [Date |-> sells[i].Date, Ticker |-> t,
                 Profit |-> profit(sells[i], avg_buy_price), row |-> sells[i].idx]]
    ELSE <<>>

ProfitCol(events) == [i \in 1..Len(events) |-> events[i].Profit]

\* total += x for every x of xs, in order
RECURSIVE Accumulate(_, _)
Accumulate(total, xs) ==
    IF xs = <<>> THEN total ELSE Accumulate(Add(total, Head(xs)), Tail(xs))

\* one iteration of "for ticker in all_data['Ticker'].unique()"
ticker_step(all_data, t, quote, st) ==
    LET t_df == of_ticker(all_data, t)
        buys == of_type(t_df, "Buy")
        sells == of_type(t_df, "Sell")
        net == net_qty(buys, sells)
        events == realized_of(t, buys, sells)
        st1 == [st EXCEPT
                  !.total_realized_profit = Accumulate(@, ProfitCol(events)),
                  !.realized_trades = @ \o events]
    IN IF is_open(net)
       THEN LET avg_cost == avg_price(buys)
                live == live_price(quote[t], avg_cost)
                cur_val == Mul(net, live)
                un_pnl == Sub(cur_val, Mul(net, avg_cost))
            IN [st1 EXCEPT
                  !.total_market_val = Add(@, cur_val),
                  !.total_unrealized_pnl = Add(@, un_pnl),
                  !.quoted = Append(@, t),
                  !.active_positions = Append(@,
                      [Ticker |-> t, Shares |-> net, AvgCost |-> avg_cost,
                       Live |-> live, Value |-> cur_val, PL |-> un_pnl])]
       ELSE st1

RECURSIVE ticker_loop(_, _, _, _)
ticker_loop(all_data, tks, quote, st) ==
    IF tks = <<>> THEN st
    ELSE ticker_loop(all_data, Tail(tks), quote,
                     ticker_step(all_data, Head(tks), quote, st))

\* lines 99-101
loop_start ==
    [active_positions |-> <<>>, realized_trades |-> <<>>, total_market_val |-> Zero,
     total_unrealized_pnl |-> Zero, total_realized_profit |-> Zero, quoted |-> <<>>]

\* Series.cumsum() skips NaN: a NaN entry stays NaN and adds nothing to the rest
RECURSIVE cumsum(_)
cumsum(xs) ==
    IF xs = <<>> THEN <<>>
    ELSE LET front == SubSeq(xs, 1, Len(xs) - 1)
             seen == SelectSeq(front, LAMBDA x : ~IsNaN(x))
             x == xs[Len(xs)]
         IN Append(cumsum(front), IF IsNaN(x) THEN NaN ELSE Add(Sum(seen), x))

\* sort_values("Date") with the default kind="quicksort", which is not stable:
\* any arrangement of the rows with ascending dates can come out
SortOrders(events) ==
    { p \in [1..Len(events) -> 1..Len(events)] :
        /\ \A i, j \in 1..Len(events) : i # j => p[i] # p[j]
        /\ \A i, j \in 1..Len(events) :
              i < j => events[p[i]].Date <= events[p[j]].Date }

\* lines 151-152: the sorted frame keeps each row's label in realized_trades
chart_of(events, p) ==
    LET sorted == [k \in 1..Len(events) |-> events[p[k]]]
        cum == cumsum(ProfitCol(sorted))
    IN [k \in 1..Len(events) |->
           [idx |-> p[k], Date |-> sorted[k].Date, Ticker |-> sorted[k].Ticker,
            Profit |-> sorted[k].Profit, row |-> sorted[k].row,
            CumulativeProfit |-> cum[k]]]

\* the tickers of a frame, as a set
TickersIn(frame) == { frame[i].Ticker : i \in 1..Len(frame) }

\* lines 99-153: the dashboard branch; all_data and the state the loop ends in
\* are each computed once and then named
Dashboard(frame) ==
    \E quote \in [TickersIn(frame) -> QuoteOutcomes] :
      \E all_data \in {coerce(frame)} :
        \E st \in {ticker_loop(all_data, unique(all_data), quote, loop_start)} :
        LET quoted == { st.quoted[i] : i \in 1..Len(st.quoted) }
            bound == [view |-> "dashboard", all_data |-> all_data,
                      active_positions |-> st.active_positions,
                      realized_trades |-> st.realized_trades,
                      total_market_val |-> st.total_market_val,
                      total_unrealized_pnl |-> st.total_unrealized_pnl,
                      total_realized_profit |-> st.total_realized_profit]
        IN /\ quote_result' = [t \in quoted |-> quote[t]]
           /\ IF st.realized_trades # <<>>
              THEN \E p \in SortOrders(st.realized_trades) :
                      run' = [chart_df |-> chart_of(st.realized_trades, p)] @@ bound
              ELSE run' = bound

\* lines 154-155: only the notice is shown; no other name is bound
Notice(frame) ==
    /\ quote_result' = << >>
    /\ run' = [view |-> "info", all_data |-> frame]

\* lines 90-155: load the ledger, then either the dashboard or the notice
Evaluate ==
    \E ok \in BOOLEAN :
        LET frame == load_data(ok)
        IN /\ read_ok' = ok
           /\ IF ~is_empty(frame) THEN Dashboard(frame) ELSE Notice(frame)
           /\ UNCHANGED <<sheet, pc, df, new_entry>>

-----------------------------------------------------------------------------
(* The submit handler, lines 76-84 *)

\* "if submitted and selected_result": load_data, then the new row is built.
\* A submission without a selected symbol skips the handler and takes no step.
SubmitLoad(s, rows) ==
    /\ pc[s] = "idle"
    /\ Len(sheet) < MaxLedger
    /\ \E ok \in BOOLEAN, entry \in rows :
          /\ df' = [df EXCEPT ![s] = load_data(ok)]
          /\ new_entry' = [new_entry EXCEPT ![s] = <<entry>>]
    /\ pc' = [pc EXCEPT ![s] = "concat"]
    /\ UNCHANGED <<sheet, run, read_ok, quote_result>>

\* conn.update(data=updated_df) replaces the whole sheet; st.rerun() follows
SubmitUpdate(s) ==
    /\ pc[s] = "concat"
    /\ sheet' = concat(df[s], new_entry[s][1])
    /\ pc' = [pc EXCEPT ![s] = "idle"]
    /\ df' = [df EXCEPT ![s] = <<>>]
    /\ new_entry' = [new_entry EXCEPT ![s] = <<>>]
    /\ UNCHANGED <<run, read_ok, quote_result>>

-----------------------------------------------------------------------------
(* Specifications *)

Quiet ==
    /\ pc = [s \in Sessions |-> "idle"]
    /\ df = [s \in Sessions |-> <<>>]
    /\ new_entry = [s \in Sessions |-> <<>>]
    /\ run = [view |-> "none"]
    /\ read_ok = TRUE
    /\ quote_result = << >>

\* the sessions of the app on a sheet that starts empty
Init == sheet = <<>> /\ Quiet
Next ==
    \/ \E s \in Sessions : SubmitLoad(s, SessionRows)
    \/ \E s \in Sessions : SubmitUpdate(s)
    \/ Evaluate
Spec == Init /\ [][Next]_vars

\* one pass through tab1 over each ledger the form can have written
InitEval == sheet \in Ledgers(FormRows, MaxLen) \cup WorkedLedgers /\ Quiet
EvaluateOnce == run.view = "none" /\ Evaluate
NextEval == EvaluateOnce
SpecEval == InitEval /\ [][NextEval]_vars

\* the app on a sheet that may have been edited by hand
InitLoaded == sheet \in Ledgers(LoadedRows, MaxLoaded) /\ Quiet
NextLoaded ==
    \/ \E s \in Sessions : SubmitLoad(s, SessionRows)
    \/ \E s \in Sessions : SubmitUpdate(s)
    \/ Evaluate
SpecLoaded == InitLoaded /\ [][NextLoaded]_vars

-----------------------------------------------------------------------------
(* What the claims speak of, stated on the loaded ledger in whole numbers *)

Evaluated == run.view # "none"
DashboardShown == run.view = "dashboard"
Bound(name) == name \in DOMAIN run

Loaded == run.all_data
RowsOf(t, ty) ==
    { i \in 1..Len(Loaded) : Loaded[i].Ticker = t /\ Loaded[i].Type = ty }

\* the sum of col[i] over the rows i of I, up to row k
RECURSIVE Total(_, _, _)
Total(I, col, k) ==
    IF k = 0 THEN 0 ELSE Total(I, col, k - 1) + (IF k \in I THEN col[k] ELSE 0)

QtyAt(i) == Loaded[i].Qty.n
PriceAt(i) == Loaded[i].Price.n
Quantities == [i \in 1..Len(Loaded) |-> QtyAt(i)]
Costs == [i \in 1..Len(Loaded) |-> QtyAt(i) * PriceAt(i)]

BuyQty(t) == Total(RowsOf(t, "Buy"), Quantities, Len(Loaded))
BuyCost(t) == Total(RowsOf(t, "Buy"), Costs, Len(Loaded))
SellQty(t) == Total(RowsOf(t, "Sell"), Quantities, Len(Loaded))
NetQuantity(t) == BuyQty(t) - SellQty(t)

Positions == run.active_positions
Events == run.realized_trades
PositionsOf(t) == { i \in 1..Len(Positions) : Positions[i].Ticker = t }
EventsOf(t) == { i \in 1..Len(Events) : Events[i].Ticker = t }
ValueCol == [i \in 1..Len(Positions) |-> Positions[i].Value]
PLCol == [i \in 1..Len(Positions) |-> Positions[i].PL]

\* x == y on floats: NaN equals nothing, not even itself
FloatEq(a, b) == ~IsNaN(a) /\ ~IsNaN(b) /\ a = b

\* the float a is the fraction num/den of whole numbers, den > 0
IsFraction(a, num, den) == IsFinite(a) /\ a.n * den = num * a.d

-----------------------------------------------------------------------------
(* C1 *)

OrphanSell(t) == RowsOf(t, "Sell") # {} /\ BuyQty(t) = 0

\* C1: a symbol with a Sell record and zero total Buy quantity yields no realized
\* event with an undefined or zero profit and stays out of the three totals,
\* which remain well-defined numbers.
C1_OrphanSellExcluded ==
    DashboardShown =>
        \A t \in TickersIn(Loaded) :
            OrphanSell(t) =>
                /\ \A i \in EventsOf(t) :
                      ~IsNaN(Events[i].Profit) /\ Events[i].Profit # Zero
                /\ PositionsOf(t) = {}
                /\ IsFinite(run.total_realized_profit)
                /\ IsFinite(run.total_market_val)
                /\ IsFinite(run.total_unrealized_pnl)

-----------------------------------------------------------------------------
(* C2 *)

\* C2: a pass whose ledger read failed produces no snapshot and does not end in
\* the "no trades recorded" notice of a successfully read empty ledger.
C2_ReadFailureFailsClosed ==
    (Evaluated /\ ~read_ok) => (run.view # "dashboard" /\ run.view # "info")

-----------------------------------------------------------------------------
(* C3 *)

\* C3: an open position whose quote failed has unrealized P/L exactly 0 and a
\* market value of netQuantity x averageCost; the pass goes on, and every open
\* position is valued with its own quote result.
C3_QuoteFallback ==
    DashboardShown =>
        /\ \A t \in TickersIn(Loaded) :
              NetQuantity(t) > 0 => (t \in DOMAIN quote_result /\ PositionsOf(t) # {})
        /\ \A i \in 1..Len(Positions) :
              LET pos == Positions[i]
                  t == pos.Ticker
              IN /\ t \in DOMAIN quote_result
                 /\ ~quote_result[t].ok =>
                       /\ pos.PL = Zero
                       /\ IsFraction(pos.Value, NetQuantity(t) * BuyCost(t), BuyQty(t))
                 /\ quote_result[t].ok =>
                       /\ pos.Live = to_numeric(quote_result[t].price)
                       /\ IsFraction(pos.Value, NetQuantity(t) * quote_result[t].price, 1)
                       /\ IsFraction(pos.PL,
                                     NetQuantity(t) * (quote_result[t].price * BuyQty(t)
                                                       - BuyCost(t)),
                                     BuyQty(t))

\* two open positions in one pass: the quote of one failed, the other is valued
\* at its live price with a P/L that is not zero
C3_Witness ==
    /\ DashboardShown
    /\ \E i, j \in 1..Len(Positions) :
          /\ ~quote_result[Positions[i].Ticker].ok
          /\ Positions[i].PL = Zero
          /\ Positions[i].Value # Zero
          /\ quote_result[Positions[j].Ticker].ok
          /\ Positions[j].PL # Zero

-----------------------------------------------------------------------------
(* C4 *)

\* C4: netQuantity is total Buy quantity minus total Sell quantity; a symbol is
\* among the open positions, once, and counted in totalMarketValue and
\* totalUnrealizedPnL, iff its netQuantity > 0.
C4_OpenIffNetPositive ==
    DashboardShown =>
        /\ \A t \in TickersIn(Loaded) :
              /\ NetQuantity(t) > 0 <=> PositionsOf(t) # {}
              /\ Cardinality(PositionsOf(t)) <= 1
              /\ \A i \in PositionsOf(t) :
                    Positions[i].Shares = to_numeric(NetQuantity(t))
        /\ \A i \in 1..Len(Positions) : Positions[i].Ticker \in TickersIn(Loaded)
        /\ run.total_market_val = Sum(ValueCol)
        /\ run.total_unrealized_pnl = Sum(PLCol)

\* one symbol sold out (sells equal to its buys) and not reported, another held
C4_Witness ==
    /\ DashboardShown
    /\ \E t, u \in TickersIn(Loaded) :
          /\ BuyQty(t) > 0 /\ SellQty(t) >= BuyQty(t) /\ PositionsOf(t) = {}
          /\ PositionsOf(u) # {}
          /\ run.total_market_val # Zero

-----------------------------------------------------------------------------
(* C5 *)

IsLoaded(ledger) == DashboardShown /\ Loaded = coerce(ledger)

-----------------------------------------------------------------------------
(* C6 *)

Chart == run.chart_df

\* C6: the charted events are in ascending date order, events of one date are in
\* the order of their Sell records in the ledger, and the cumulative profit at
\* each place is the sum of the profits up to it.  Stated for the passes in
\* which no symbol is an orphan sell, so that every profit is a number and the
\* order alone decides it.
C6_ChartOrder ==
    (Bound("chart_df") /\ \A t \in TickersIn(Loaded) : ~OrphanSell(t)) =>
        /\ \A i, j \in 1..Len(Chart) : i < j => Chart[i].Date <= Chart[j].Date
        /\ \A i, j \in 1..Len(Chart) :
              (i < j /\ Chart[i].Date = Chart[j].Date) => Chart[i].row < Chart[j].row
        /\ \A k \in 1..Len(Chart) :
              Chart[k].CumulativeProfit
                  = Sum([i \in 1..k |-> Chart[i].Profit])

-----------------------------------------------------------------------------
(* C7 *)

ValidRecord(r) ==
    r.Qty >= 0 /\ r.Price >= 0 /\ r.Type \in {"Buy", "Sell"} /\ r.Ticker # ""

ValidRows(t, ty) ==
    { i \in RowsOf(t, ty) : Loaded[i].Qty.n >= 0 /\ Loaded[i].Price.n >= 0 }
ValidNet(t) ==
    Total(ValidRows(t, "Buy"), Quantities, Len(Loaded))
        - Total(ValidRows(t, "Sell"), Quantities, Len(Loaded))

\* C7: the submit path never writes a record with a negative quantity or price,
\* a side other than Buy or Sell or an empty symbol, and no such record of the
\* loaded ledger contributes to a position, a realized event or a total.
C7_InvalidRejected ==
    /\ \A s \in Sessions : pc[s] = "concat" => ValidRecord(new_entry[s][1])
    /\ DashboardShown =>
          /\ \A t \in TickersIn(Loaded) :
                /\ ValidNet(t) > 0 <=> PositionsOf(t) # {}
                /\ \A i \in PositionsOf(t) :
                      Positions[i].Shares = to_numeric(ValidNet(t))
          /\ \A k \in 1..Len(Events) :
                QtyAt(Events[k].row) >= 0 /\ PriceAt(Events[k].row) >= 0

-----------------------------------------------------------------------------
(* C8 *)

\* C8: after a pass over a non-empty ledger the three totals equal the sums over
\* the reported positions and the emitted realized events, and the realized
\* total equals the last value of the cumulative series.
C8_TotalsAreSums ==
    DashboardShown =>
        /\ FloatEq(run.total_market_val, Sum(ValueCol))
        /\ FloatEq(run.total_unrealized_pnl, Sum(PLCol))
        /\ FloatEq(run.total_realized_profit, Sum(ProfitCol(Events)))
        /\ Bound("chart_df") =>
              FloatEq(run.total_realized_profit, Chart[Len(Chart)].CumulativeProfit)

-----------------------------------------------------------------------------
(* C9 *)

EmptyLedgerRead == Evaluated /\ read_ok /\ Loaded = <<>>

\* C9 as stated: a pass over a successfully read empty ledger yields no
\* positions, no realized events and three totals equal to 0.0, and asks for no
\* quote.
C9_EmptySnapshot ==
    EmptyLedgerRead =>
        /\ Bound("active_positions") /\ run.active_positions = <<>>
        /\ Bound("realized_trades") /\ run.realized_trades = <<>>
        /\ Bound("total_market_val") /\ run.total_market_val = Zero
        /\ Bound("total_unrealized_pnl") /\ run.total_unrealized_pnl = Zero
        /\ Bound("total_realized_profit") /\ run.total_realized_profit = Zero
        /\ DOMAIN quote_result = {}

\* C9 amended: a pass over a successfully read empty ledger shows the notice
\* only: it reports no position and no realized event, computes no total at
\* all, and asks for no quote.
C9_EmptyNotice ==
    EmptyLedgerRead =>
        /\ run.view = "info"
        /\ DOMAIN run = {"view", "all_data"}
        /\ DOMAIN quote_result = {}

\* the empty sheet was read without error and the pass has run
C9_Witness == EmptyLedgerRead /\ sheet = <<>> /\ run.view = "info"

-----------------------------------------------------------------------------
(* C10 *)

\* C10: every change of the stored ledger appends one record to what was stored
\* before, which stays unchanged and in the same order.
C10_AppendOnly ==
    [][sheet' # sheet =>
          /\ Len(sheet') = Len(sheet) + 1
          /\ SubSeq(sheet', 1, Len(sheet)) = sheet]_vars

====
